---- MODULE Spec2Model ----
(***************************************************************************)
(* Weather forecast / observation pipeline: the SQLite repository of       *)
(* database.py, the observation normaliser and the ingestion run of        *)
(* fetch_data.py.  Text is kept as strings and taken apart character by    *)
(* character, the way sqlite's date() and Python's comparisons do.         *)
(***************************************************************************)
EXTENDS Integers, Sequences, FiniteSets, TLC

VARIABLES
    forecasts,      \* table forecasts, rows in rowid order
    observations,   \* table observations, rows in rowid order
    clock,          \* the UTC wall clock: [day, pm]
    last,           \* the last repository call: its name, argument and return value
    lastVal,        \* history: per forecast key, max_temp of the latest upsert holding it
    pc,             \* position of the ingestion run (fetch_data.py __main__)
    run,            \* the run's locals and what it has done so far
    txn             \* rows written inside the open transaction, not yet committed

vars == <<forecasts, observations, clock, last, lastVal, pc, run, txn>>

-----------------------------------------------------------------------------
(* Bounds of the model                                                     *)

MaxDay == 48            \* the clock stops advancing after this day number
MaxForecastRows == 2    \* upserts that would grow the table beyond this are not taken
MaxObservationRows == 4 \* inserts that would grow the table beyond this are not taken
MaxSideRows == 1        \* the same, for the table a specification is not about
MaxBatch == 2           \* longest batch handed to upsert_forecasts or insert_observations
MaxFeed == 3            \* most entries in an observation feed
MaxSections == 2        \* most day sections in a generated bulletin

(* Program constants                                                       *)

RETENTION_DAYS == 14
OBSERVATION_LOCATION == "Dunalley (Henry anson)"
SENTINEL_LOCATION == "Dunalley (Henry anson)"

NULL == "NULL"          \* SQL NULL, as the value of a text expression
None == [none |-> TRUE] \* Python None
StartDay == 31          \* day number of 2021-01-01; day 0 is 2020-12-01

-----------------------------------------------------------------------------
(* Strings                                                                 *)

Char(s, i) == SubSeq(s, i, i)

\* printable ASCII in runs of consecutive code points; the double quote (34),
\* the apostrophe (39), the backslash (92) and the backtick (96) are left out
Ascii35 == "#$%&"
Ascii40 == "()*+,-./0123456789:;<=>?@ABCDEFGHIJKLMNOPQRSTUVWXYZ["
Ascii93 == "]^_"
Ascii97 == "abcdefghijklmnopqrstuvwxyz{|}~"

RECURSIVE IndexIn(_, _, _)
IndexIn(ch, s, i) ==
    IF i > Len(s) THEN 0
    ELSE IF Char(s, i) = ch THEN i
    ELSE IndexIn(ch, s, i + 1)

\* the code point of a printable ASCII character
Ord(ch) ==
    IF ch = " " THEN 32
    ELSE IF ch = "!" THEN 33
    ELSE IF IndexIn(ch, Ascii35, 1) > 0 THEN 34 + IndexIn(ch, Ascii35, 1)
    ELSE IF IndexIn(ch, Ascii40, 1) > 0 THEN 39 + IndexIn(ch, Ascii40, 1)
    ELSE IF IndexIn(ch, Ascii93, 1) > 0 THEN 92 + IndexIn(ch, Ascii93, 1)
    ELSE 96 + IndexIn(ch, Ascii97, 1)

IsDigit(ch) == IndexIn(ch, "0123456789", 1) > 0

RECURSIVE AllDigits(_)
AllDigits(s) ==
    IF Len(s) = 0 THEN TRUE
    ELSE IsDigit(Char(s, 1)) /\ AllDigits(SubSeq(s, 2, Len(s)))

\* Python's and sqlite's (BINARY collation) string order: by code point, a
\* proper prefix first
RECURSIVE StrLess(_, _)
StrLess(a, b) ==
    IF Len(b) = 0 THEN FALSE
    ELSE IF Len(a) = 0 THEN TRUE
    ELSE IF Char(a, 1) = Char(b, 1)
         THEN StrLess(SubSeq(a, 2, Len(a)), SubSeq(b, 2, Len(b)))
         ELSE Ord(Char(a, 1)) < Ord(Char(b, 1))

\* int(s) of a string of digits
RECURSIVE IntOf(_)
IntOf(s) ==
    IF Len(s) = 0 THEN 0
    ELSE 10 * IntOf(SubSeq(s, 1, Len(s) - 1)) + (IndexIn(Char(s, Len(s)), "0123456789", 1) - 1)

Digit(d) == Char("0123456789", d + 1)
TwoDigits(k) == Digit(k \div 10) \o Digit(k % 10)

-----------------------------------------------------------------------------
(* Calendar: day numbers of the window 2020-12-01 .. 2021-02-28            *)

IsoDate(n) ==
    IF n < 31 THEN "2020-12-" \o TwoDigits(n + 1)
    ELSE IF n < 62 THEN "2021-01-" \o TwoDigits(n - 30)
    ELSE "2021-02-" \o TwoDigits(n - 61)

\* datetime.utcnow().isoformat(): the microseconds are left out when they are 0
UtcNowIso(c) ==
    IsoDate(c.day) \o (IF c.pm THEN "T18:45:10.123456" ELSE "T06:30:00")

(* sqlite's date(X).  X in one of the ISO-8601 shapes gives its YYYY-MM-DD *)
(* part; a string that is a number is a Julian day number, out of range    *)
(* (and NULL) once it has 8 digits or more; everything else is NULL.       *)

IsYmd(s) ==
    /\ Len(s) = 10
    /\ AllDigits(SubSeq(s, 1, 4)) /\ Char(s, 5) = "-"
    /\ AllDigits(SubSeq(s, 6, 7)) /\ Char(s, 8) = "-"
    /\ AllDigits(SubSeq(s, 9, 10))
    /\ SubSeq(s, 6, 7) \in {"01", "02", "03", "04", "05", "06",
                             "07", "08", "09", "10", "11", "12"}
    /\ SubSeq(s, 9, 10) # "00" /\ ~ StrLess("31", SubSeq(s, 9, 10))

IsZone(s) ==
    \/ s = ""
    \/ s = "Z"
    \/ /\ Len(s) = 6
       /\ Char(s, 1) \in {"+", "-"}
       /\ AllDigits(SubSeq(s, 2, 3)) /\ Char(s, 4) = ":" /\ AllDigits(SubSeq(s, 5, 6))

IsFraction(s) ==
    \E k \in 1..Len(s) :
        /\ AllDigits(SubSeq(s, 1, k))
        /\ IsZone(SubSeq(s, k + 1, Len(s)))

\* HH:MM, HH:MM:SS or HH:MM:SS.SSS, then an optional zone
IsHms(s) ==
    /\ Len(s) >= 5
    /\ AllDigits(SubSeq(s, 1, 2)) /\ Char(s, 3) = ":" /\ AllDigits(SubSeq(s, 4, 5))
    /\ \/ IsZone(SubSeq(s, 6, Len(s)))
       \/ /\ Len(s) >= 8
          /\ Char(s, 6) = ":" /\ AllDigits(SubSeq(s, 7, 8))
          /\ \/ IsZone(SubSeq(s, 9, Len(s)))
             \/ /\ Len(s) >= 10
                /\ Char(s, 9) = "."
                /\ IsFraction(SubSeq(s, 10, Len(s)))

SqliteDate(x) ==
    IF x = NULL THEN NULL
    ELSE IF Len(x) >= 10 /\ IsYmd(SubSeq(x, 1, 10))
    THEN IF Len(x) = 10 THEN x
         ELSE IF /\ Char(x, 11) \in {"T", " "}
                 /\ IsHms(SubSeq(x, 12, Len(x)))
              THEN SubSeq(x, 1, 10)
              ELSE NULL
    ELSE IF Len(x) > 0 /\ Len(x) <= 7 /\ AllDigits(x)
    THEN "julian-day"       \* a Julian day number; no modelled value is one
    ELSE NULL

\* date('now', '-14 days')
CutoffDate(c) == IsoDate(c.day - RETENTION_DAYS)

\* SQL comparison: NULL on either side is not true
SqlLess(a, b) == a # NULL /\ b # NULL /\ StrLess(a, b)
SqlEq(a, b) == a # NULL /\ b # NULL /\ a = b

-----------------------------------------------------------------------------
(* The tables                                                              *)

ForecastKey(r) == <<r.location, r.forecast_date>>

RECURSIVE FindKey(_, _, _)
\* index of the row of table t holding key k, 0 when there is none
FindKey(t, k, i) ==
    IF i > Len(t) THEN 0
    ELSE IF ForecastKey(t[i]) = k THEN i
    ELSE FindKey(t, k, i + 1)

ForecastRow(rec, now) ==
    [location |-> rec.location, forecast_date |-> rec.forecast_date,
     max_temp |-> rec.max_temp, last_updated_at |-> now]

\* INSERT ... ON CONFLICT(location, forecast_date) DO UPDATE SET max_temp,
\* last_updated_at: one record of the executemany
UpsertRowAppend(t, rec, now) == Append(t, ForecastRow(rec, now))

UpsertRowIgnore(t, rec, now) ==
    IF FindKey(t, ForecastKey(rec), 1) = 0
    THEN Append(t, ForecastRow(rec, now))
    ELSE t

UpsertRow(t, rec, now) ==
    LET i == FindKey(t, ForecastKey(rec), 1) IN
    IF i = 0 THEN Append(t, ForecastRow(rec, now))
    ELSE [t EXCEPT ![i].max_temp = rec.max_temp, ![i].last_updated_at = now]

RECURSIVE UpsertAllReversed(_, _, _)
\* the records taken from the last to the first
UpsertAllReversed(t, batch, now) ==
    IF Len(batch) = 0 THEN t
    ELSE UpsertRow(UpsertAllReversed(t, Tail(batch), now), Head(batch), now)

RECURSIVE UpsertAll(_, _, _)
UpsertAll(t, batch, now) ==
    IF Len(batch) = 0 THEN t
    ELSE UpsertAll(UpsertRow(t, Head(batch), now), Tail(batch), now)

ObservationRow(rec, now) ==
    [location |-> rec.location, observation_datetime |-> rec.observation_datetime,
     air_temp |-> rec.air_temp, last_updated_at |-> now]

RECURSIVE FindObs(_, _, _)
FindObs(t, rec, i) ==
    IF i > Len(t) THEN 0
    ELSE IF /\ t[i].location = rec.location
            /\ t[i].observation_datetime = rec.observation_datetime THEN i
    ELSE FindObs(t, rec, i + 1)

InsertRowReplace(t, rec, now) ==
    LET i == FindObs(t, rec, 1) IN
    IF i = 0 THEN Append(t, ObservationRow(rec, now))
    ELSE [t EXCEPT ![i] = ObservationRow(rec, now)]

\* INSERT INTO observations: one record of the executemany
InsertRow(t, rec, now) == Append(t, ObservationRow(rec, now))

RECURSIVE InsertAll(_, _, _)
InsertAll(t, batch, now) ==
    IF Len(batch) = 0 THEN t
    ELSE InsertAll(InsertRow(t, Head(batch), now), Tail(batch), now)

\* WHERE date(last_updated_at) < date('now', '-14 days')
ExpiredInclusive(r, c) ==
    ~ SqlLess(CutoffDate(c), SqliteDate(r.last_updated_at))
      /\ SqliteDate(r.last_updated_at) # NULL

Expired(r, c) == SqlLess(SqliteDate(r.last_updated_at), CutoffDate(c))

RECURSIVE Purge(_, _)
\* DELETE FROM t WHERE ...: the rows left, in rowid order
Purge(t, c) ==
    IF Len(t) = 0 THEN << >>
    ELSE IF Expired(Head(t), c) THEN Purge(Tail(t), c)
    ELSE <<Head(t)>> \o Purge(Tail(t), c)

-----------------------------------------------------------------------------
(* The read queries                                                        *)

RECURSIVE InsertSorted(_, _)
InsertSorted(s, x) ==
    IF Len(s) = 0 THEN <<x>>
    ELSE IF StrLess(x, Head(s)) THEN <<x>> \o s
    ELSE <<Head(s)>> \o InsertSorted(Tail(s), x)

RECURSIVE Sorted(_)
\* sorted(list) on strings
Sorted(s) == IF Len(s) = 0 THEN << >> ELSE InsertSorted(Sorted(Tail(s)), Head(s))

Range(s) == {s[i] : i \in 1..Len(s)}

RECURSIVE Distinct(_)
Distinct(s) ==
    IF Len(s) = 0 THEN << >>
    ELSE LET d == Distinct(Tail(s)) IN
         IF Head(s) \in Range(d) THEN d ELSE <<Head(s)>> \o d

\* SELECT DISTINCT location FROM forecasts ORDER BY location ASC
SelectLocations(t) == Sorted(Distinct([i \in 1..Len(t) |-> t[i].location]))

get_available_locations_unsorted(t) ==
    LET locations == SelectLocations(t) IN
    IF SENTINEL_LOCATION \notin Range(locations)
    THEN Append(locations, SENTINEL_LOCATION)
    ELSE locations

get_available_locations(t) ==
    LET locations == SelectLocations(t) IN
    Sorted(IF SENTINEL_LOCATION \notin Range(locations)
           THEN Append(locations, SENTINEL_LOCATION)
           ELSE locations)

RECURSIVE SelectObservations(_, _, _)
\* SELECT air_temp, observation_datetime FROM observations
\* WHERE location = ? AND date(observation_datetime) = ?
SelectObservations(t, location, date_str) ==
    IF Len(t) = 0 THEN << >>
    ELSE LET r == Head(t)
             rest == SelectObservations(Tail(t), location, date_str) IN
         IF r.location = location /\ SqlEq(SqliteDate(r.observation_datetime), date_str)
         THEN <<[air_temp |-> r.air_temp,
                 observation_datetime |-> r.observation_datetime]>> \o rest
         ELSE rest

\* SELECT max_temp FROM forecasts WHERE location = ? AND forecast_date = ?; fetchone()
\* the forecast of the location, whatever its date
SelectForecastByLocation(t, location, date_str) ==
    IF \E i \in 1..Len(t) : t[i].location = location
    THEN [max_temp |-> t[CHOOSE i \in 1..Len(t) : t[i].location = location].max_temp]
    ELSE None

SelectForecast(t, location, date_str) ==
    LET i == FindKey(t, <<location, date_str>>, 1) IN
    IF i = 0 THEN None ELSE [max_temp |-> t[i].max_temp]

get_comparison_data(f, o, location, date_str) ==
    [forecast |-> SelectForecast(f, location, date_str),
     observations |-> SelectObservations(o, location, date_str)]

-----------------------------------------------------------------------------
(* Inputs                                                                  *)

Locations == {"Cygnet", SENTINEL_LOCATION, "Hobart"}
Dates == {"2021-01-01", "2021-01-02"}
Temps == {18, 25}

Forecast(l, d, t) == [location |-> l, forecast_date |-> d, max_temp |-> t]

\* two values for one key and one location on two dates
KeyRecords ==
    {Forecast("Hobart", "2021-01-01", 18), Forecast("Hobart", "2021-01-01", 25),
     Forecast("Hobart", "2021-01-02", 18)}

\* a location before the sentinel in code point order, and the sentinel
LocationRecords ==
    {Forecast("Cygnet", "2021-01-01", 25), Forecast(SENTINEL_LOCATION, "2021-01-02", 18)}

SeqsUpTo(S, n) == UNION {[1..k -> S] : k \in 0..n}

ForecastBatches ==
    SeqsUpTo(KeyRecords, MaxBatch) \cup {<<r>> : r \in LocationRecords}

ForecastKeys == Locations \X Dates

NoRun ==
    [steps |-> << >>, pre |-> << >>, preObs |-> << >>, bulletin |-> "none",
     feed |-> "none", batch |-> << >>, i |-> 0, text |-> ""]

\* where no ingestion run is under way
Terminal == {"idle", "done", "aborted", "crashed"}

Init ==
    /\ forecasts = << >>
    /\ observations = << >>
    /\ clock = [day |-> StartDay, pm |-> FALSE]
    /\ last = [op |-> "init_db", arg |-> None, ret |-> None]
    /\ lastVal = [k \in ForecastKeys |-> << >>]
    /\ pc = "idle"
    /\ run = NoRun
    /\ txn = None

-----------------------------------------------------------------------------
(* The repository calls, each one transaction                              *)

RECURSIVE LastIndexOf(_, _, _)
\* the last position of batch holding key k, 0 when there is none
LastIndexOf(batch, k, i) ==
    IF i = 0 THEN 0
    ELSE IF ForecastKey(batch[i]) = k THEN i
    ELSE LastIndexOf(batch, k, i - 1)

Written(batch) ==
    [k \in ForecastKeys |->
        LET i == LastIndexOf(batch, k, Len(batch)) IN
        IF i = 0 THEN lastVal[k] ELSE <<batch[i].max_temp>>]

upsert_forecasts(forecast_data, cap) ==
    /\ pc = "idle"
    /\ IF Len(forecast_data) = 0
       THEN UNCHANGED forecasts
       ELSE forecasts' = UpsertAll(forecasts, forecast_data, UtcNowIso(clock))
    /\ Len(forecasts') <= cap
    /\ last' = [op |-> "upsert_forecasts", arg |-> forecast_data, ret |-> None]
    /\ lastVal' = Written(forecast_data)
    /\ UNCHANGED <<observations, clock, pc, run, txn>>

insert_observations(observation_data, cap) ==
    /\ pc = "idle"
    /\ IF Len(observation_data) = 0
       THEN UNCHANGED observations
       ELSE observations' = InsertAll(observations, observation_data, UtcNowIso(clock))
    /\ Len(observations') <= cap
    /\ last' = [op |-> "insert_observations", arg |-> observation_data, ret |-> None]
    /\ UNCHANGED <<forecasts, clock, lastVal, pc, run, txn>>

cleanup_old_data ==
    /\ pc = "idle"
    /\ forecasts' = Purge(forecasts, clock)
    /\ observations' = Purge(observations, clock)
    /\ last' = [op |-> "cleanup_old_data", arg |-> None,
                ret |-> [forecasts |-> Len(forecasts) - Len(forecasts'),
                         observations |-> Len(observations) - Len(observations')]]
    /\ UNCHANGED <<clock, lastVal, pc, run, txn>>

get_comparison_data_call(location, date_str) ==
    /\ pc = "idle"
    /\ last' = [op |-> "get_comparison_data", arg |-> <<location, date_str>>,
                ret |-> get_comparison_data(forecasts, observations, location, date_str)]
    /\ UNCHANGED <<forecasts, observations, clock, lastVal, pc, run, txn>>

get_available_locations_call ==
    /\ pc = "idle"
    /\ last' = [op |-> "get_available_locations", arg |-> None,
                ret |-> get_available_locations(forecasts)]
    /\ UNCHANGED <<forecasts, observations, clock, lastVal, pc, run, txn>>

\* the wall clock moves on by d days between two calls, or between the end
\* of one ingestion run and the start of the next
Tick(d) ==
    /\ pc \in Terminal
    /\ clock.day + d <= MaxDay
    /\ clock' = [day |-> clock.day + d, pm |-> FALSE]
    /\ pc' = "idle"
    /\ run' = NoRun
    /\ UNCHANGED <<forecasts, observations, last, lastVal, txn>>

-----------------------------------------------------------------------------
(* parse_forecasts: the regular expressions, character by character        *)

IsUpper(ch) == IndexIn(ch, "ABCDEFGHIJKLMNOPQRSTUVWXYZ", 1) > 0
IsLower(ch) == IndexIn(ch, "abcdefghijklmnopqrstuvwxyz", 1) > 0
\* \w, \s and the class [\w\s\(\)-] on ASCII text
IsWord(ch) == IsUpper(ch) \/ IsLower(ch) \/ IsDigit(ch) \/ ch = "_"
IsSpace(ch) == ch \in {" ", "\n", "\t", "\r"}
IsLocationChar(ch) == IsWord(ch) \/ IsSpace(ch) \/ ch \in {"(", ")", "-"}

StartsWith(t, i, lit) ==
    i + Len(lit) - 1 <= Len(t) /\ SubSeq(t, i, i + Len(lit) - 1) = lit

RECURSIVE WordEnd(_, _)
\* the index after the run of \w that starts at i
WordEnd(t, i) == IF i <= Len(t) /\ IsWord(Char(t, i)) THEN WordEnd(t, i + 1) ELSE i

RECURSIVE DigitEnd(_, _)
DigitEnd(t, i) == IF i <= Len(t) /\ IsDigit(Char(t, i)) THEN DigitEnd(t, i + 1) ELSE i

RECURSIVE SpaceEnd(_, _)
SpaceEnd(t, i) == IF i <= Len(t) /\ IsSpace(Char(t, i)) THEN SpaceEnd(t, i + 1) ELSE i

\* (\w+ \d{1,2} \w+ \d{4}) at g: the index after the group, 0 for no match
IssueGroupEnd(t, g) ==
    LET w1 == WordEnd(t, g)
        d1 == DigitEnd(t, w1 + 1)
        w2 == WordEnd(t, d1 + 1)
    IN  IF /\ w1 > g /\ StartsWith(t, w1, " ")
           /\ d1 - (w1 + 1) \in {1, 2} /\ StartsWith(t, d1, " ")
           /\ w2 > d1 + 1 /\ StartsWith(t, w2, " ")
           /\ w2 + 4 <= Len(t) /\ AllDigits(SubSeq(t, w2 + 1, w2 + 4))
        THEN w2 + 5
        ELSE 0

Min(S) == CHOOSE x \in S : \A y \in S : x <= y

\* no line break in text[i..j-1]: what .*? may step over
OneLine(t, i, j) == \A r \in i..(j - 1) : Char(t, r) # "\n"

\* .*? after "Issued at ": the first q, on the same line, where " on " and the
\* group follow; the group text, NULL for no match
IssueLazy(t, from) ==
    LET Q == {q \in from..Len(t) :
                /\ StartsWith(t, q, " on ") /\ IssueGroupEnd(t, q + 4) > 0
                /\ OneLine(t, from, q)}
    IN  IF Q = {} THEN NULL
        ELSE SubSeq(t, Min(Q) + 4, IssueGroupEnd(t, Min(Q) + 4) - 1)

\* re.search(r"Issued at .*? on (\w+ \d{1,2} \w+ \d{4})", file_content).group(1)
IssueSearch(t) ==
    LET P == {p \in 1..Len(t) :
                StartsWith(t, p, "Issued at ") /\ IssueLazy(t, p + 10) # NULL}
    IN  IF P = {} THEN NULL ELSE IssueLazy(t, Min(P) + 10)

RECURSIVE Replace(_, _, _)
\* str.replace(old, new)
Replace(s, old, new) ==
    IF Len(s) = 0 THEN ""
    ELSE IF StartsWith(s, 1, old)
    THEN new \o Replace(SubSeq(s, Len(old) + 1, Len(s)), old, new)
    ELSE Char(s, 1) \o Replace(SubSeq(s, 2, Len(s)), old, new)

RECURSIVE Lower(_)
Lower(s) ==
    IF Len(s) = 0 THEN ""
    ELSE (IF IsUpper(Char(s, 1))
          THEN Char("abcdefghijklmnopqrstuvwxyz",
                    IndexIn(Char(s, 1), "ABCDEFGHIJKLMNOPQRSTUVWXYZ", 1))
          ELSE Char(s, 1)) \o Lower(SubSeq(s, 2, Len(s)))

Weekdays ==
    {"monday", "tuesday", "wednesday", "thursday", "friday", "saturday", "sunday"}

Months ==
    <<"january", "february", "march", "april", "may", "june", "july", "august",
      "september", "october", "november", "december">>

MonthNumber(name) ==
    IF \E m \in 1..12 : Months[m] = name
    THEN CHOOSE m \in 1..12 : Months[m] = name
    ELSE 0

IsLeap(y) == (y % 4 = 0 /\ y % 100 # 0) \/ y % 400 = 0

DaysInMonth(y, m) ==
    IF m = 2 THEN (IF IsLeap(y) THEN 29 ELSE 28)
    ELSE IF m \in {4, 6, 9, 11} THEN 30
    ELSE 31

\* %d: 1..9, 01..09, 10..31
DayNumber(s) ==
    IF AllDigits(s) /\ Len(s) \in {1, 2} /\ IntOf(s) >= 1 /\ IntOf(s) <= 31
    THEN IntOf(s)
    ELSE 0

\* a strptime that reads a date out of any text
StrptimeLenient(date_str) == [ok |-> TRUE, y |-> 2021, m |-> 1, d |-> 1]

\* datetime.strptime(date_str, "%A %d %B %Y").date(): [ok, y, m, d]; not ok
\* stands for ValueError
Strptime(date_str) ==
    LET a == WordEnd(date_str, 1)
        d == WordEnd(date_str, a + 1)
        b == WordEnd(date_str, d + 1)
        weekday == Lower(SubSeq(date_str, 1, a - 1))
        day == DayNumber(SubSeq(date_str, a + 1, d - 1))
        month == MonthNumber(Lower(SubSeq(date_str, d + 1, b - 1)))
        year == SubSeq(date_str, b + 1, Len(date_str))
    IN  IF /\ weekday \in Weekdays
           /\ StartsWith(date_str, a, " ") /\ day > 0
           /\ StartsWith(date_str, d, " ") /\ month > 0
           /\ StartsWith(date_str, b, " ") /\ Len(year) = 4 /\ AllDigits(year)
           /\ IntOf(year) >= 1
           /\ day <= DaysInMonth(IntOf(year), month)
        THEN [ok |-> TRUE, y |-> IntOf(year), m |-> month, d |-> day]
        ELSE [ok |-> FALSE, y |-> 0, m |-> 0, d |-> 0]

RECURSIVE AddDays(_, _)
\* base_date + timedelta(days=i)
AddDays(date, i) ==
    IF i = 0 THEN date
    ELSE IF date.d < DaysInMonth(date.y, date.m)
    THEN AddDays([date EXCEPT !.d = date.d + 1], i - 1)
    ELSE IF date.m < 12
    THEN AddDays([date EXCEPT !.m = date.m + 1, !.d = 1], i - 1)
    ELSE AddDays([date EXCEPT !.y = date.y + 1, !.m = 1, !.d = 1], i - 1)

FourDigits(n) == TwoDigits(n \div 100) \o TwoDigits(n % 100)

\* date.isoformat()
IsoFormat(date) == FourDigits(date.y) \o "-" \o TwoDigits(date.m) \o "-" \o TwoDigits(date.d)

\* where a header starts: "Forecast for the rest of" begins with "Forecast for"
IsHeader(t, i) == StartsWith(t, i, "Forecast for")

HeaderLen(t, i) == IF StartsWith(t, i, "Forecast for the rest of") THEN 24 ELSE 12

RECURSIVE SplitSections(_, _)
\* re.split(r"Forecast for the rest of|Forecast for", file_content): the
\* pieces between the headers, the text before the first header included
SplitSections(t, start) ==
    LET H == {i \in start..Len(t) : IsHeader(t, i)}
    IN  IF H = {} THEN <<SubSeq(t, start, Len(t))>>
        ELSE <<SubSeq(t, start, Min(H) - 1)>>
             \o SplitSections(t, Min(H) + HeaderLen(t, Min(H)))

NoMatch == [ok |-> FALSE, location |-> "", max_temp |-> "", end |-> 0]

\* a number after either word
TemperatureAt(t, j) ==
    LET s == SpaceEnd(t, j + 7)
        d == DigitEnd(t, s)
    IN  IF /\ StartsWith(t, j, "Maximum") \/ StartsWith(t, j, "Minimum")
           /\ s > j + 7 /\ d > s /\ StartsWith(t, d, ".")
        THEN [ok |-> TRUE, location |-> "", max_temp |-> SubSeq(t, s, d - 1), end |-> d + 1]
        ELSE NoMatch

\* Maximum\s+(?P<max_temp>\d+)\. at j
MaximumAt(t, j) ==
    LET s == SpaceEnd(t, j + 7)
        d == DigitEnd(t, s)
    IN  IF /\ StartsWith(t, j, "Maximum")
           /\ s > j + 7 /\ d > s /\ StartsWith(t, d, ".")
        THEN [ok |-> TRUE, location |-> "", max_temp |-> SubSeq(t, s, d - 1), end |-> d + 1]
        ELSE NoMatch

\* .*? then Maximum...: the first j on the line of position from
MaximumLazy(t, from) ==
    LET J == {j \in from..Len(t) : MaximumAt(t, j).ok /\ OneLine(t, from, j)}
    IN  IF J = {} THEN NoMatch ELSE MaximumAt(t, Min(J))

RECURSIVE AfterSpaces(_, _, _)
\* \s+ greedy from e: the longest run first, then shorter ones
AfterSpaces(t, e, k) ==
    IF k = 0 THEN NoMatch
    ELSE IF MaximumLazy(t, e + k).ok THEN MaximumLazy(t, e + k)
    ELSE AfterSpaces(t, e, k - 1)

\* [A-Z][\w\s\(\)-]+? from p: the shortest location text[p..e-1] after which
\* the rest of the pattern matches
LocationLazy(t, p) ==
    LET E == {e \in (p + 2)..Len(t) :
                /\ \A r \in (p + 1)..(e - 1) : IsLocationChar(Char(t, r))
                /\ IsSpace(Char(t, e))
                /\ AfterSpaces(t, e, SpaceEnd(t, e) - e).ok}
    IN  IF E = {} THEN NoMatch
        ELSE [AfterSpaces(t, Min(E), SpaceEnd(t, Min(E)) - Min(E))
                EXCEPT !.location = SubSeq(t, p, Min(E) - 1)]

\* the pattern at position p, where ^ holds
MatchAt(t, p) ==
    IF /\ p = 1 \/ Char(t, p - 1) = "\n"
       /\ p <= Len(t) /\ IsUpper(Char(t, p))
    THEN LocationLazy(t, p)
    ELSE NoMatch

RECURSIVE Strip(_)
Strip(s) ==
    IF Len(s) > 0 /\ IsSpace(Char(s, 1)) THEN Strip(SubSeq(s, 2, Len(s)))
    ELSE IF Len(s) > 0 /\ IsSpace(Char(s, Len(s))) THEN Strip(SubSeq(s, 1, Len(s) - 1))
    ELSE s

RECURSIVE FindIter(_, _, _)
\* pattern.finditer(section), each match as the record appended for it
FindIter(t, pos, forecast_date) ==
    LET P == {p \in pos..Len(t) : MatchAt(t, p).ok}
    IN  IF P = {} THEN << >>
        ELSE <<[location |-> Strip(MatchAt(t, Min(P)).location),
                forecast_date |-> forecast_date,
                max_temp |-> IntOf(MatchAt(t, Min(P)).max_temp)]>>
             \o FindIter(t, MatchAt(t, Min(P)).end, forecast_date)

RECURSIVE ParseSectionsSkipEmpty(_, _, _)
\* a section without a match takes no day
ParseSectionsSkipEmpty(day_sections, i, base_date) ==
    IF Len(day_sections) = 0 THEN << >>
    ELSE LET found == FindIter(Head(day_sections), 1, IsoFormat(AddDays(base_date, i)))
         IN  found \o ParseSectionsSkipEmpty(Tail(day_sections),
                                             IF Len(found) = 0 THEN i ELSE i + 1, base_date)

RECURSIVE ParseSections(_, _, _)
\* for i, section in enumerate(day_sections)
ParseSections(day_sections, i, base_date) ==
    IF Len(day_sections) = 0 THEN << >>
    ELSE FindIter(Head(day_sections), 1, IsoFormat(AddDays(base_date, i)))
         \o ParseSections(Tail(day_sections), i + 1, base_date)

parse_forecasts(file_content) ==
    IF file_content = "" THEN << >>
    ELSE IF IssueSearch(file_content) = NULL THEN << >>
    ELSE LET date_str == Replace(IssueSearch(file_content), "Sept", "September")
             base_date == Strptime(date_str)
         IN  IF ~ base_date.ok THEN << >>
             ELSE ParseSections(Tail(SplitSections(file_content, 1)), 0,
                                [y |-> base_date.y, m |-> base_date.m, d |-> base_date.d])

-----------------------------------------------------------------------------
(* fetch_observations: the JSON feed and its normalisation                 *)

\* JSON values; numbers are held in tenths of a degree
JNull == [t |-> "null"]
JStr(s) == [t |-> "str", s |-> s]
JNum(v) == [t |-> "num", v |-> v]

RECURSIVE IntStr(_)
IntStr(n) == IF n < 10 THEN Digit(n) ELSE IntStr(n \div 10) \o Digit(n % 10)

\* what an f-string makes of a JSON value
PyStr(j) ==
    IF j.t = "str" THEN j.s
    ELSE IF j.t = "null" THEN "None"
    ELSE IntStr(j.v \div 10) \o "." \o Digit(j.v % 10)

\* float(x) of a string of the shapes "21" and "21.5"; any other modelled
\* string is no number and raises ValueError
IsFloatText(s) ==
    /\ Len(s) > 0
    /\ \/ AllDigits(s)
       \/ /\ Len(s) >= 3
          /\ AllDigits(SubSeq(s, 1, Len(s) - 2))
          /\ Char(s, Len(s) - 1) = "."
          /\ IsDigit(Char(s, Len(s)))

FloatText(s) ==
    IF AllDigits(s) THEN 10 * IntOf(s)
    ELSE 10 * IntOf(SubSeq(s, 1, Len(s) - 2)) + IntOf(Char(s, Len(s)))

\* float(obs['air_temp']): the value in tenths, or the exception raised
PyFloat(j) ==
    IF j.t = "num" THEN [raised |-> "none", v |-> j.v]
    ELSE IF j.t = "str" /\ IsFloatText(j.s) THEN [raised |-> "none", v |-> FloatText(j.s)]
    ELSE IF j.t = "str" THEN [raised |-> "ValueError", v |-> 0]
    ELSE [raised |-> "TypeError", v |-> 0]

\* the key is there, whatever its value
HasAirTempKey(obs) == "air_temp" \in DOMAIN obs

\* obs.get('air_temp') is not None
HasAirTemp(obs) == "air_temp" \in DOMAIN obs /\ obs.air_temp # JNull

\* the dict literal of one entry, its items evaluated in order
ParseEntry(obs) ==
    IF ~ ("local_date_time_full" \in DOMAIN obs) \/ ~ ("aifstime_utc" \in DOMAIN obs)
    THEN [raised |-> "KeyError", rec |-> None]
    ELSE IF PyFloat(obs.air_temp).raised # "none"
    THEN [raised |-> PyFloat(obs.air_temp).raised, rec |-> None]
    ELSE [raised |-> "none",
          rec |-> [location |-> OBSERVATION_LOCATION,
                   observation_datetime |->
                       PyStr(obs.local_date_time_full) \o PyStr(obs.aifstime_utc),
                   air_temp |-> PyFloat(obs.air_temp).v]]

RECURSIVE ParseObservations(_, _)
\* the for loop over obs_list: an exception leaves the function at once
ParseObservations(obs_list, parsed_obs) ==
    IF Len(obs_list) = 0 THEN [raised |-> "none", value |-> parsed_obs]
    ELSE IF ~ HasAirTemp(Head(obs_list))
    THEN ParseObservations(Tail(obs_list), parsed_obs)
    ELSE IF ParseEntry(Head(obs_list)).raised # "none"
    THEN [raised |-> ParseEntry(Head(obs_list)).raised, value |-> << >>]
    ELSE ParseObservations(Tail(obs_list),
                           Append(parsed_obs, ParseEntry(Head(obs_list)).rec))

\* response: [ok |-> FALSE] when requests raised a RequestException, else the
\* observations.data list of the JSON body
fetch_observations(response) ==
    IF ~ response.ok THEN [raised |-> "none", value |-> << >>]
    ELSE IF Len(response.data) = 0 THEN [raised |-> "none", value |-> << >>]
    ELSE ParseObservations(response.data, << >>)

Entry(ldt, utc, temp) ==
    [local_date_time_full |-> JStr(ldt), aifstime_utc |-> JStr(utc), air_temp |-> temp]

\* the feed as the bureau publishes it: both times as 14 digits
BomEntry == Entry("20210101173000", "20210101063000", JNum(215))
\* a feed that would give ISO-8601 local time and a zone suffix
IsoEntry == Entry("2021-01-01T17:30:00", "Z", JNum(180))
NullTempEntry == Entry("20210101180000", "20210101070000", JNull)
NoTempEntry ==
    [local_date_time_full |-> JStr("20210101183000"),
     aifstime_utc |-> JStr("20210101073000")]
NoUtcEntry == [local_date_time_full |-> JStr("20210101190000"), air_temp |-> JNum(200)]
TextTempEntry == Entry("20210101193000", "20210101083000", JStr("20.5"))
BadTempEntry == Entry("20210101200000", "20210101090000", JStr("n/a"))

BomObservation == ParseEntry(BomEntry).rec
IsoObservation == ParseEntry(IsoEntry).rec

ObservationBatches == SeqsUpTo({BomObservation, IsoObservation}, MaxBatch)

FeedEntries ==
    {BomEntry, IsoEntry, NullTempEntry, NoTempEntry, NoUtcEntry, TextTempEntry,
     BadTempEntry}

Feeds == SeqsUpTo(FeedEntries, MaxFeed)

\* the normaliser applied to the feed the HTTP request returned
Normalize ==
    /\ pc = "idle"
    /\ last.op = "init_db"
    /\ last' = [op |-> "fetch_observations", arg |-> run.feed,
                ret |-> fetch_observations([ok |-> TRUE, data |-> run.feed])]
    /\ UNCHANGED <<forecasts, observations, clock, lastVal, pc, run, txn>>

-----------------------------------------------------------------------------
(* The parser on bulletins                                                 *)

MonthNames ==
    <<"January", "February", "March", "April", "May", "June", "July", "August",
      "September", "October", "November", "December">>

\* the weekday of the first of each month of 2021
FirstWeekday2021 ==
    <<"Friday", "Monday", "Monday", "Thursday", "Saturday", "Tuesday", "Thursday",
      "Sunday", "Wednesday", "Friday", "Monday", "Wednesday">>

\* the issue line of a bulletin and the calendar date it states
Anchor(weekday, d, month, m, y) ==
    [line |-> "Issued at 5:00 pm on " \o weekday \o " " \o IntStr(d) \o " " \o month
              \o " " \o IntStr(y) \o "\n",
     month |-> month,
     date |-> [y |-> y, m |-> m, d |-> d]]

JanuaryAnchor == Anchor("Friday", 1, "January", 1, 2021)
YearEndAnchor == Anchor("Friday", 31, "December", 12, 2021)
SeptAnchor == Anchor("Wednesday", 1, "Sept", 9, 2021)
FullMonthAnchors ==
    {Anchor(FirstWeekday2021[m], 1, MonthNames[m], m, 2021) : m \in 1..12}

\* issue lines that state no date the parser is meant to read, and no line
MalformedAnchors ==
    {[line |-> "", month |-> "", date |-> None],
     [line |-> "Issued at 5:00 pm Friday 1 January 2021\n", month |-> "", date |-> None],
     [line |-> "Issued at 5:00 pm on Fri 1 Jan 2021\n", month |-> "", date |-> None],
     [line |-> "Issued at 5:00 pm on Friday 31 February 2021\n", month |-> "", date |-> None]}

\* the body of a day section, and the (location, max_temp) lines it holds
SectionKinds ==
    [max |-> [text |-> "Hobart   Sunny. Maximum 28.\n",
              lines |-> <<[location |-> "Hobart", max_temp |-> 28]>>],
     none |-> [text |-> "No forecast issued.\n", lines |-> << >>],
     min |-> [text |-> "Hobart   Cloudy. Minimum 5.\n", lines |-> << >>],
     minmax |-> [text |-> "Hobart   Showers. Minimum 5. Maximum 23.\n",
                 lines |-> <<[location |-> "Hobart", max_temp |-> 23]>>],
     two |-> [text |-> "Hobart   Cloudy. Minimum 5.\nCygnet   Fine. Maximum 23.\n",
              lines |-> <<[location |-> "Cygnet", max_temp |-> 23]>>],
     dup |-> [text |-> "Hobart   Maximum 20.\nHobart   Late change. Maximum 22.\n",
              lines |-> <<[location |-> "Hobart", max_temp |-> 20],
                          [location |-> "Hobart", max_temp |-> 22]>>]]

RECURSIVE SectionsText(_, _)
\* the day sections of a bulletin: the first under "Forecast for the rest
\* of", the later ones under "Forecast for"
SectionsText(kinds, i) ==
    IF i > Len(kinds) THEN ""
    ELSE (IF i = 1 THEN "Forecast for the rest of Friday\n" ELSE "Forecast for Saturday\n")
         \o SectionKinds[kinds[i]].text \o SectionsText(kinds, i + 1)

\* a bulletin: a preamble that has a forecast-like line of its own, the issue
\* line, the day sections
Bulletin(anchor, kinds) ==
    [form |-> "daily", anchor |-> anchor, sections |-> kinds,
     text |-> "IDT16710\nHobart   Outlook. Maximum 99.\n" \o anchor.line
              \o SectionsText(kinds, 1)]

\* the bulletin whose one section is headed by its location
LocationBulletin(body) ==
    [form |-> "location", anchor |-> JanuaryAnchor, sections |-> << >>,
     text |-> "Issued at 5:00 pm on Friday 1 January 2021\n" \o body]

LocationBulletins ==
    {LocationBulletin("Forecast for Hobart. ... Maximum 28."),
     LocationBulletin("Forecast for Hobart. Sunny. Maximum 28."),
     LocationBulletin("Forecast for Hobart.\nSunny. Maximum 28.\n")}

SectionSeqs == SeqsUpTo(DOMAIN SectionKinds, MaxSections)

ParserInputs ==
    {Bulletin(YearEndAnchor, k) : k \in SectionSeqs}
    \cup {Bulletin(a, k) : a \in FullMonthAnchors \cup {SeptAnchor} \cup MalformedAnchors,
                           k \in {<<"max">>, <<"none", "dup">>}}
    \cup LocationBulletins

InitParser ==
    /\ forecasts = << >>
    /\ observations = << >>
    /\ clock = [day |-> StartDay, pm |-> FALSE]
    /\ last = [op |-> "init_db", arg |-> None, ret |-> None]
    /\ lastVal = [k \in ForecastKeys |-> << >>]
    /\ pc = "idle"
    /\ run \in ParserInputs
    /\ txn = None

\* parse_forecasts applied to the text of the bulletin
Parse ==
    /\ pc = "idle"
    /\ last.op = "init_db"
    /\ last' = [op |-> "parse_forecasts", arg |-> run, ret |-> parse_forecasts(run.text)]
    /\ UNCHANGED <<forecasts, observations, clock, lastVal, pc, run, txn>>

NextParser == Parse

SpecParser == InitParser /\ [][NextParser]_vars

-----------------------------------------------------------------------------
(* The ingestion run: fetch_data.py run as a script                        *)

BulletinA ==
    "IDT16710\nIssued at 5:00 pm EDT on Friday 1 January 2021\n"
    \o "Forecast for the rest of Friday\nHobart   Sunny. Maximum 28.\n"
    \o "Cygnet   Fine. Maximum 25.\n"

BulletinB ==
    "IDT16710\nIssued at 5:00 am EDT on Friday 1 January 2021\n"
    \o "Forecast for the rest of Friday\nHobart   Sunny. Maximum 30.\n"
    \o "Forecast for Saturday\nHobart   Showers. Minimum 9. Maximum 21.\n"

\* bulletins without an issue date the parser reads
MalformedBulletins == {Bulletin(a, <<"max">>).text : a \in MalformedAnchors}

Bulletins == {BulletinA, BulletinB} \cup MalformedBulletins

\* fetch_forecasts(): None after any exception, else the text of the file
FetchedForecasts == {[ok |-> FALSE, text |-> ""]} \cup {[ok |-> TRUE, text |-> b] : b \in Bulletins \cup {""}}

\* parse_forecasts of every text the run can be given
Parsed == [b \in Bulletins \cup {""} |-> parse_forecasts(b)]

\* requests.get(...).json()["observations"]["data"], or a RequestException
Responses ==
    {[ok |-> FALSE, data |-> << >>], [ok |-> TRUE, data |-> << >>],
     [ok |-> TRUE, data |-> <<BomEntry, NullTempEntry, TextTempEntry>>],
     [ok |-> TRUE, data |-> <<IsoEntry, NoUtcEntry>>]}

StorageSteps ==
    {"init_db", "upsert_exec", "upsert_commit", "insert_exec", "insert_commit",
     "cleanup", "cleanup_observations", "cleanup_commit"}

Step(name) == [run EXCEPT !.steps = Append(@, name)]

\* a run starts: python fetch_data.py
StartRun ==
    /\ pc \in Terminal
    /\ Len(observations) < MaxObservationRows
    /\ pc' = "init_db"
    /\ run' = [NoRun EXCEPT !.pre = forecasts, !.preObs = observations]
    /\ UNCHANGED <<forecasts, observations, clock, last, lastVal, txn>>

\* database.init_db(): CREATE TABLE IF NOT EXISTS leaves the rows alone
RunInitDb ==
    /\ pc = "init_db"
    /\ pc' = "fetch_forecasts"
    /\ run' = Step("init_db")
    /\ UNCHANGED <<forecasts, observations, clock, last, lastVal, txn>>

\* a failed fetch leaves the records of some bulletin to be stored
ForecastBatchDefault(fetched) ==
    IF fetched.ok /\ fetched.text # "" THEN Parsed[fetched.text] ELSE Parsed[BulletinA]

\* if forecast_content: parsed_forecast_data = parse_forecasts(forecast_content);
\* None and the empty text are falsy, and then nothing is parsed or stored
ForecastBatch(fetched) ==
    IF fetched.ok /\ fetched.text # "" THEN Parsed[fetched.text] ELSE << >>

\* forecast_content = fetch_forecasts(); if forecast_content: parse, and
\* upsert_forecasts up to the opening of its transaction
RunFetchForecasts(fetched) ==
    /\ pc = "fetch_forecasts"
    /\ LET batch == ForecastBatch(fetched)
       IN  /\ run' = [Step("fetch_forecasts") EXCEPT
                        !.bulletin = IF ~ fetched.ok THEN "failed"
                                     ELSE IF fetched.text = "" THEN "empty"
                                     ELSE "fetched",
                        !.batch = batch, !.i = 1, !.text = fetched.text]
           /\ IF Len(batch) = 0
              THEN pc' = "fetch_observations" /\ UNCHANGED txn
              ELSE /\ pc' = "upsert_exec"
                   /\ txn' = [forecasts |-> forecasts, observations |-> observations]
    /\ UNCHANGED <<forecasts, observations, clock, last, lastVal>>

\* executemany: the statement for one record, inside the transaction
RunUpsertExec ==
    /\ pc = "upsert_exec"
    /\ txn' = [txn EXCEPT !.forecasts = UpsertRow(@, run.batch[run.i], UtcNowIso(clock))]
    /\ run' = [Step("upsert_exec") EXCEPT !.i = @ + 1]
    /\ pc' = IF run.i = Len(run.batch) THEN "upsert_commit" ELSE "upsert_exec"
    /\ UNCHANGED <<forecasts, observations, clock, last, lastVal>>

\* every statement is durable as soon as it has run
WriteThrough(committed, working) == working

\* the tables once the work of a transaction is committed

Commit(committed, working) == working

\* what the tables hold while a transaction is open, and after it is rolled
\* back or lost in a crash
Uncommitted(committed, working) == committed

\* conn.commit()
RunUpsertCommit ==
    /\ pc = "upsert_commit"
    /\ forecasts' = Commit(forecasts, txn.forecasts)
    /\ txn' = None
    /\ run' = Step("upsert_commit")
    /\ pc' = "fetch_observations"
    /\ UNCHANGED <<observations, clock, last, lastVal>>

\* parsed_observations_data = fetch_observations(); an exception it lets
\* through ends the script; a non-empty list opens insert_observations
RunFetchObservations(response) ==
    /\ pc = "fetch_observations"
    /\ LET r == fetch_observations(response)
       IN  /\ run' = [Step("fetch_observations") EXCEPT
                        !.feed = IF r.raised # "none" THEN r.raised
                                 ELSE IF ~ response.ok THEN "failed"
                                 ELSE "fetched",
                        !.batch = r.value, !.i = 1]
           /\ IF r.raised # "none"
              THEN pc' = "aborted" /\ UNCHANGED txn
              ELSE IF Len(r.value) = 0
              THEN pc' = "cleanup" /\ UNCHANGED txn
              ELSE /\ pc' = "insert_exec"
                   /\ txn' = [forecasts |-> forecasts, observations |-> observations]
    /\ UNCHANGED <<forecasts, observations, clock, last, lastVal>>

RunInsertExec ==
    /\ pc = "insert_exec"
    /\ txn' = [txn EXCEPT !.observations = InsertRow(@, run.batch[run.i], UtcNowIso(clock))]
    /\ run' = [Step("insert_exec") EXCEPT !.i = @ + 1]
    /\ pc' = IF run.i = Len(run.batch) THEN "insert_commit" ELSE "insert_exec"
    /\ UNCHANGED <<forecasts, observations, clock, last, lastVal>>

RunInsertCommit ==
    /\ pc = "insert_commit"
    /\ observations' = Commit(observations, txn.observations)
    /\ txn' = None
    /\ run' = Step("insert_commit")
    /\ pc' = "cleanup"
    /\ UNCHANGED <<forecasts, clock, last, lastVal>>

\* cleanup_old_data: DELETE FROM forecasts ...
RunCleanupForecasts ==
    /\ pc = "cleanup"
    /\ txn' = [forecasts |-> Purge(forecasts, clock), observations |-> observations]
    /\ run' = Step("cleanup")
    /\ pc' = "cleanup_observations"
    /\ UNCHANGED <<forecasts, observations, clock, last, lastVal>>

\* ... DELETE FROM observations ...
RunCleanupObservations ==
    /\ pc = "cleanup_observations"
    /\ txn' = [txn EXCEPT !.observations = Purge(@, clock)]
    /\ run' = Step("cleanup_observations")
    /\ pc' = "cleanup_commit"
    /\ UNCHANGED <<forecasts, observations, clock, last, lastVal>>

\* ... conn.commit(), and the script ends
RunCleanupCommit ==
    /\ pc = "cleanup_commit"
    /\ forecasts' = Commit(forecasts, txn.forecasts)
    /\ observations' = Commit(observations, txn.observations)
    /\ txn' = None
    /\ run' = Step("cleanup_commit")
    /\ pc' = "done"
    /\ UNCHANGED <<clock, last, lastVal>>

\* where the script stands after a statement of stage raised: nothing in
\* __main__ catches, the exception ends the script
ContinueAfterFault(stage) ==
    IF stage \in {"upsert_exec", "upsert_commit"} THEN "fetch_observations"
    ELSE IF stage \in {"insert_exec", "insert_commit"} THEN "cleanup"
    ELSE "aborted"

AfterFault(stage) == "aborted"

\* the store fails under a statement: sqlite3 raises, the with block rolls the
\* transaction back and the exception goes on to the caller
StorageFault ==
    /\ pc \in StorageSteps
    /\ forecasts' = IF txn = None THEN forecasts ELSE Uncommitted(forecasts, txn.forecasts)
    /\ observations' = IF txn = None THEN observations
                       ELSE Uncommitted(observations, txn.observations)
    /\ txn' = None
    /\ run' = Step("fault")
    /\ pc' = AfterFault(pc)
    /\ UNCHANGED <<clock, last, lastVal>>

\* the process dies: what was not committed is gone
Crash ==
    /\ pc \notin Terminal
    /\ forecasts' = IF txn = None THEN forecasts ELSE Uncommitted(forecasts, txn.forecasts)
    /\ observations' = IF txn = None THEN observations
                       ELSE Uncommitted(observations, txn.observations)
    /\ txn' = None
    /\ run' = Step("crash")
    /\ pc' = "crashed"
    /\ UNCHANGED <<clock, last, lastVal>>

NextRun ==
    \/ StartRun
    \/ RunInitDb
    \/ \E fetched \in FetchedForecasts : RunFetchForecasts(fetched)
    \/ RunUpsertExec
    \/ RunUpsertCommit
    \/ \E response \in Responses : RunFetchObservations(response)
    \/ RunInsertExec
    \/ RunInsertCommit
    \/ RunCleanupForecasts
    \/ RunCleanupObservations
    \/ RunCleanupCommit
    \/ StorageFault
    \/ Crash
    \/ Tick(RETENTION_DAYS + 1)

SpecRun == Init /\ [][NextRun]_vars

-----------------------------------------------------------------------------
(* The start of the app: app.py down to the page                           *)

\* if not database.get_available_locations(): the list is falsy when empty
NeedsSetup(f) == Len(get_available_locations(f)) = 0

\* perform_first_time_setup(): the forecasts and the observations fetched and
\* stored, without a cleanup
FirstTimeSetup(f, o, fetched, response, now) ==
    [forecasts |-> UpsertAll(f, ForecastBatch(fetched), now),
     observations |-> InsertAll(o, fetch_observations(response).value, now)]

\* the script runs from the top: init_db(), the check, the setup if the check
\* asks for it, then the page
app_start(fetched, response) ==
    /\ pc = "idle"
    /\ LET setup == NeedsSetup(forecasts)
           stored == FirstTimeSetup(forecasts, observations, fetched, response,
                                    UtcNowIso(clock))
       IN  /\ forecasts' = IF setup THEN stored.forecasts ELSE forecasts
           /\ observations' = IF setup THEN stored.observations ELSE observations
           /\ lastVal' = IF setup THEN Written(ForecastBatch(fetched)) ELSE lastVal
           /\ last' = [op |-> "app_start", arg |-> <<fetched.ok, response.ok>>,
                       ret |-> [empty |-> Len(forecasts) = 0, setup |-> setup]]
    /\ UNCHANGED <<clock, pc, run, txn>>

StartFetched == {[ok |-> FALSE, text |-> ""], [ok |-> TRUE, text |-> BulletinA]}

StartResponses == {[ok |-> FALSE, data |-> << >>], [ok |-> TRUE, data |-> <<BomEntry>>]}

NextApp ==
    \/ \E b \in ForecastBatches : upsert_forecasts(b, MaxForecastRows)
    \/ cleanup_old_data
    \/ \E fetched \in StartFetched, response \in StartResponses : app_start(fetched, response)
    \/ Tick(RETENTION_DAYS + 1)

SpecApp == Init /\ [][NextApp]_vars

-----------------------------------------------------------------------------
(* Specifications: the repository under free calls                         *)

\* the forecast table under batches that repeat keys
NextForecasts ==
    \/ \E b \in ForecastBatches : upsert_forecasts(b, MaxForecastRows)
    \/ insert_observations(<<BomObservation>>, MaxSideRows)
    \/ cleanup_old_data
    \/ get_available_locations_call
    \/ Tick(RETENTION_DAYS + 1)

Spec == Init /\ [][NextForecasts]_vars

QueryLocations == {OBSERVATION_LOCATION, "Hobart"}

\* the observation table and the comparison query
NextObservations ==
    \/ \E b \in ObservationBatches : insert_observations(b, MaxObservationRows)
    \/ upsert_forecasts(<<Forecast(OBSERVATION_LOCATION, "2021-01-01", 25)>>, MaxSideRows)
    \/ \E l \in QueryLocations, d \in Dates : get_comparison_data_call(l, d)
    \/ cleanup_old_data
    \/ Tick(RETENTION_DAYS + 1)

SpecObservations == Init /\ [][NextObservations]_vars

\* both tables day by day around the retention limit
NextRetention ==
    \/ upsert_forecasts(<<Forecast("Hobart", "2021-01-01", 18)>>, MaxSideRows)
    \/ insert_observations(<<BomObservation>>, MaxSideRows)
    \/ cleanup_old_data
    \/ Tick(1)
    \/ Tick(RETENTION_DAYS - 1)

SpecRetention == Init /\ [][NextRetention]_vars

\* the normaliser on every feed up to MaxFeed entries
InitNormalizer ==
    /\ forecasts = << >>
    /\ observations = << >>
    /\ clock = [day |-> StartDay, pm |-> FALSE]
    /\ last = [op |-> "init_db", arg |-> None, ret |-> None]
    /\ lastVal = [k \in ForecastKeys |-> << >>]
    /\ pc = "idle"
    /\ run \in {[feed |-> f] : f \in Feeds}
    /\ txn = None

NextNormalizer == Normalize

SpecNormalizer == InitNormalizer /\ [][NextNormalizer]_vars

-----------------------------------------------------------------------------
(* Properties of the forecast table                                        *)

\* C1: whatever upsert_forecasts, insert_observations and cleanup_old_data
\* calls were made, with whatever batches, no two rows of the forecast table
\* share (location, forecast_date).
C1_OneRowPerKey ==
    \A i, j \in 1..Len(forecasts) :
        ForecastKey(forecasts[i]) = ForecastKey(forecasts[j]) => i = j

\* an upsert whose batch repeats a key has hit a table that already held it
C1_Witness ==
    /\ last.op = "upsert_forecasts"
    /\ Len(last.arg) = 2
    /\ ForecastKey(last.arg[1]) = ForecastKey(last.arg[2])
    /\ last.arg[1].max_temp # last.arg[2].max_temp
    /\ Len(forecasts) = 2
    /\ \E i \in 1..Len(forecasts) :
        /\ ForecastKey(forecasts[i]) = ForecastKey(last.arg[1])
        /\ forecasts[i].last_updated_at = UtcNowIso([day |-> MaxDay - 2, pm |-> FALSE])

Triples(t) ==
    {<<t[i].location, t[i].forecast_date, t[i].max_temp>> : i \in 1..Len(t)}

\* C2: upserting the same batch a second time leaves the set of (location,
\* forecast_date, max_temp) rows as the first upsert left it; there is one row
\* per key, and every row holds the max_temp of the most recent upsert that
\* contained its key.
C2_Idempotent ==
    /\ [](/\ C1_OneRowPerKey
          /\ \A i \in 1..Len(forecasts) :
                lastVal[ForecastKey(forecasts[i])] = <<forecasts[i].max_temp>>)
    /\ [][(/\ last.op = "upsert_forecasts"
           /\ last'.op = "upsert_forecasts"
           /\ last'.arg = last.arg)
          => Triples(forecasts') = Triples(forecasts)]_vars

\* an upsert of two records, days after the rows were written, found both keys
\* stored (the rows stand in the order opposite to the batch, so the batch
\* created neither) and rewrote each row in its place
C2_Witness ==
    /\ last.op = "upsert_forecasts"
    /\ Len(last.arg) = 2
    /\ ForecastKey(last.arg[1]) # ForecastKey(last.arg[2])
    /\ Len(forecasts) = 2
    /\ forecasts[1] = ForecastRow(last.arg[2], UtcNowIso([day |-> MaxDay - 2, pm |-> FALSE]))
    /\ forecasts[2] = ForecastRow(last.arg[1], UtcNowIso([day |-> MaxDay - 2, pm |-> FALSE]))

\* C10: get_available_locations returns a list in strictly ascending code
\* point order (so free of duplicates) whose elements are exactly the
\* locations of the forecast rows and the sentinel site.
C10_Locations ==
    last.op = "get_available_locations" =>
        /\ \A i \in 1..(Len(last.ret) - 1) : StrLess(last.ret[i], last.ret[i + 1])
        /\ Range(last.ret) =
              {forecasts[i].location : i \in 1..Len(forecasts)} \cup {SENTINEL_LOCATION}

\* the sentinel has no forecast row and sorts between two locations that have
C10_Witness ==
    /\ last.op = "get_available_locations"
    /\ last.ret = <<"Cygnet", "Dunalley (Henry anson)", "Hobart">>
    /\ \A i \in 1..Len(forecasts) : forecasts[i].location # SENTINEL_LOCATION

\* the store is empty and the sentinel is the whole answer
C10_WitnessEmpty ==
    /\ last.op = "get_available_locations"
    /\ forecasts = << >>
    /\ last.ret = <<SENTINEL_LOCATION>>

-----------------------------------------------------------------------------
(* Properties of the observation table and the comparison query            *)

\* the calendar date an observation_datetime starts with: the leading
\* YYYYMMDD of the feed's 14-digit local time, or a leading YYYY-MM-DD
LocalDay(dt) ==
    IF Len(dt) >= 8 /\ AllDigits(SubSeq(dt, 1, 8))
    THEN SubSeq(dt, 1, 4) \o "-" \o SubSeq(dt, 5, 6) \o "-" \o SubSeq(dt, 7, 8)
    ELSE SubSeq(dt, 1, 10)

RECURSIVE ObservationsOfDay(_, _, _)
ObservationsOfDay(t, location, day) ==
    IF Len(t) = 0 THEN << >>
    ELSE IF Head(t).location = location /\ LocalDay(Head(t).observation_datetime) = day
    THEN <<[air_temp |-> Head(t).air_temp,
            observation_datetime |-> Head(t).observation_datetime]>>
         \o ObservationsOfDay(Tail(t), location, day)
    ELSE ObservationsOfDay(Tail(t), location, day)

\* C3: get_comparison_data(location, date) returns all stored observations of
\* that location whose observation_datetime, the feed's local date-time
\* followed by its UTC value, has the query date as its calendar date.
C3_AllObservationsOfDay ==
    last.op = "get_comparison_data" =>
        last.ret.observations = ObservationsOfDay(observations, last.arg[1], last.arg[2])

\* the query does return the rows whose observation_datetime sqlite can read
C3_IsoRowsReturned ==
    /\ last.op = "get_comparison_data"
    /\ last.arg = <<OBSERVATION_LOCATION, "2021-01-01">>
    /\ Len(last.ret.observations) = 2
    /\ \E i \in 1..Len(observations) : observations[i].observation_datetime
                                         = BomObservation.observation_datetime

\* C9: insert_observations with n records adds exactly n rows, one per record
\* and in batch order, after the rows already there; it changes no observation
\* row and no forecast row, whether or not (location, observation_datetime)
\* is stored already.
C9_AppendOnly ==
    [][(last'.op = "insert_observations" /\ clock' = clock)
       => /\ forecasts' = forecasts
          /\ Len(observations') = Len(observations) + Len(last'.arg)
          /\ SubSeq(observations', 1, Len(observations)) = observations
          /\ \A i \in 1..Len(last'.arg) :
                observations'[Len(observations) + i]
                    = ObservationRow(last'.arg[i], UtcNowIso(clock))]_vars

\* the same feed of 2 entries ingested in 2 runs, days apart: 4 rows
C9_Witness ==
    /\ last.op = "insert_observations"
    /\ last.arg = <<BomObservation, IsoObservation>>
    /\ Len(observations) = 4
    /\ \A i \in 1..2 :
        /\ observations[i] = ObservationRow(last.arg[i], UtcNowIso([day |-> StartDay, pm |-> FALSE]))
        /\ observations[i + 2] = ObservationRow(last.arg[i], UtcNowIso(clock))
    /\ clock.day > StartDay

-----------------------------------------------------------------------------
(* Retention                                                               *)

\* the day number of the date a timestamp starts with
DayOf(ts) == CHOOSE n \in 0..(MaxDay + 1) : IsoDate(n) = SubSeq(ts, 1, 10)

AgeDays(r) == clock.day - DayOf(r.last_updated_at)

RECURSIVE YoungerThan(_, _)
\* the rows of t that are at most n days old, in their order
YoungerThan(t, n) ==
    IF Len(t) = 0 THEN << >>
    ELSE IF AgeDays(Head(t)) <= n THEN <<Head(t)>> \o YoungerThan(Tail(t), n)
    ELSE YoungerThan(Tail(t), n)

\* C5: cleanup_old_data removes the forecast and observation rows whose
\* last_updated_at date lies more than 14 days before today and keeps every
\* row that is 14 days old or younger as it is; it reports the numbers
\* removed, which are 0 on an empty store.
C5_Retention ==
    [][(last'.op = "cleanup_old_data" /\ clock' = clock)
       => /\ forecasts' = YoungerThan(forecasts, 14)
          /\ observations' = YoungerThan(observations, 14)
          /\ last'.ret = [forecasts |-> Len(forecasts) - Len(forecasts'),
                          observations |-> Len(observations) - Len(observations')]
          /\ (forecasts = << >> /\ observations = << >>)
                => last'.ret = [forecasts |-> 0, observations |-> 0]]_vars

\* a cleanup 15 days after the start has removed the forecast row, which
\* was at most 15 days old, and kept an observation row exactly 14 days old
C5_Witness ==
    /\ last.op = "cleanup_old_data"
    /\ clock.day = StartDay + 15
    /\ last.ret = [forecasts |-> 1, observations |-> 0]
    /\ forecasts = << >>
    /\ Len(observations) = 1
    /\ AgeDays(observations[1]) = 14

-----------------------------------------------------------------------------
(* The normaliser                                                          *)

\* an entry the loop takes up and that has all it reads: both time fields and
\* a temperature that is a number
WellFormed(obs) ==
    /\ HasAirTemp(obs)
    /\ "local_date_time_full" \in DOMAIN obs /\ "aifstime_utc" \in DOMAIN obs
    /\ obs.air_temp.t = "num" \/ (obs.air_temp.t = "str" /\ IsFloatText(obs.air_temp.s))

Malformed(obs) == HasAirTemp(obs) /\ ~ WellFormed(obs)

RECURSIVE WellFormedRecords(_)
\* the records of the well-formed entries of a feed, in feed order
WellFormedRecords(feed) ==
    IF Len(feed) = 0 THEN << >>
    ELSE IF WellFormed(Head(feed))
    THEN <<ParseEntry(Head(feed)).rec>> \o WellFormedRecords(Tail(feed))
    ELSE WellFormedRecords(Tail(feed))

\* C7: the normaliser raises on no feed, and what it returns is the records
\* of the well-formed entries of the feed in feed order, a malformed entry
\* being dropped.
C7_MalformedDropped ==
    last.op = "fetch_observations" =>
        /\ last.ret.raised = "none"
        /\ last.ret.value = WellFormedRecords(last.arg)

\* on a feed without a malformed entry the normaliser does return the record
\* of every entry that has a temperature
C7_WellFormedFeed ==
    /\ last.op = "fetch_observations"
    /\ \A i \in 1..Len(last.arg) : ~ Malformed(last.arg[i])
    /\ Len(last.arg) = MaxFeed
    /\ last.ret.raised = "none"
    /\ last.ret.value = WellFormedRecords(last.arg)
    /\ Len(last.ret.value) = 2

-----------------------------------------------------------------------------
(* Claims about the ingestion run                                          *)

LastStep == IF Len(run.steps) = 0 THEN "none" ELSE run.steps[Len(run.steps)]

StepBeforeLast ==
    IF Len(run.steps) < 2 THEN "none" ELSE run.steps[Len(run.steps) - 1]

\* the run was ended by a fault or a crash while upsert_forecasts had its
\* transaction open
EndedInsideUpsert ==
    /\ pc \in {"aborted", "crashed"}
    /\ LastStep \in {"fault", "crash"}
    /\ \/ StepBeforeLast = "upsert_exec"
       \/ StepBeforeLast = "fetch_forecasts" /\ run.bulletin = "fetched" /\ Len(run.batch) > 0

\* C6: upsert_forecasts is all or nothing: while its statements run, and
\* after a failure on any record or a crash before the commit, the forecasts
\* table is the one from before the call; once committed, every row of the
\* batch carries the new last_updated_at together with the new max_temp.
C6_AtomicBatch ==
    /\ pc \in {"upsert_exec", "upsert_commit"} => forecasts = run.pre
    /\ EndedInsideUpsert => forecasts = run.pre
    /\ LastStep = "upsert_commit" =>
          \A i \in 1..Len(run.batch) :
              \E k \in 1..Len(forecasts) :
                  /\ ForecastKey(forecasts[k]) = ForecastKey(run.batch[i])
                  /\ forecasts[k].last_updated_at = UtcNowIso(clock)
                  /\ \E j \in i..Len(run.batch) :
                        /\ ForecastKey(run.batch[j]) = ForecastKey(run.batch[i])
                        /\ forecasts[k].max_temp = run.batch[j].max_temp

\* the process died after both records of a bulletin were executed and before
\* the commit, over a table that already held a row one of them rewrites
C6_Witness ==
    /\ pc = "crashed"
    /\ StepBeforeLast = "upsert_exec"
    /\ run.i = 3
    /\ \E k \in 1..Len(run.pre) :
          /\ ForecastKey(run.pre[k]) = ForecastKey(run.batch[1])
          /\ run.pre[k].max_temp # run.batch[1].max_temp
    /\ forecasts = run.pre

\* C8: a fault of the store under upsert_forecasts, insert_observations or
\* cleanup_old_data ends the run there: the fault is the last step the run
\* takes, nothing is tried again and no later stage is executed.
C8_FaultAborts ==
    \A k \in 1..Len(run.steps) :
        run.steps[k] = "fault" => k = Len(run.steps) /\ pc = "aborted"

\* the store failed under the second record of an upsert: the run is over
\* and has fetched no observations and cleaned nothing up
C8_Witness ==
    /\ pc = "aborted"
    /\ LastStep = "fault"
    /\ StepBeforeLast = "upsert_exec"
    /\ \A k \in 1..Len(run.steps) :
          run.steps[k] \notin {"fetch_observations", "insert_exec", "cleanup"}

\* C13: a bulletin without the issue-date anchor, or with an anchor whose
\* date cannot be read, parses to the empty list without an exception; the
\* run then issues no upsert statement, leaves the forecasts table as it was
\* and goes on to the observation stage.
C13_MalformedBulletin ==
    run.text \in MalformedBulletins =>
        /\ \A k \in 1..Len(run.steps) : run.steps[k] \notin {"upsert_exec", "upsert_commit"}
        /\ LastStep = "fetch_forecasts" => run.batch = << >> /\ pc = "fetch_observations"
        /\ (\A k \in 1..Len(run.steps) : run.steps[k] # "cleanup_commit") => forecasts = run.pre
        /\ pc = "done" => \E k \in 1..Len(run.steps) : run.steps[k] = "fetch_observations"

\* a run over stored forecasts whose bulletin had no readable issue date: it
\* ended normally, the forecasts are as before and the observations are stored
C13_Witness ==
    /\ run.text \in MalformedBulletins
    /\ pc = "done"
    /\ Len(run.pre) > 0
    /\ forecasts = run.pre
    /\ run.feed = "fetched"
    /\ Len(observations) = Len(run.preObs) + 2

\* a run that ended normally after the bulletin fetch failed and the
\* observation fetch returned records
IsolatedRunDone ==
    /\ pc = "done"
    /\ run.bulletin = "failed"
    /\ run.feed = "fetched"
    /\ Len(run.batch) > 0

\* the records of the feed are the last rows of the observations table
ObservationsStored ==
    /\ Len(observations) >= Len(run.batch)
    /\ \A i \in 1..Len(run.batch) :
          LET row == observations[Len(observations) - Len(run.batch) + i]
          IN  /\ row.location = run.batch[i].location
              /\ row.observation_datetime = run.batch[i].observation_datetime
              /\ row.air_temp = run.batch[i].air_temp

\* C4 as stated: when the bulletin fetch fails and the observation fetch
\* succeeds, the observations are stored and the forecasts table at the end
\* of the run is the one from before the run.
C4_ForecastsUntouched ==
    IsolatedRunDone => ObservationsStored /\ forecasts = run.pre

\* C4: when the bulletin fetch fails and the observation fetch succeeds, the
\* run goes on to the observations and stores them, and it adds and modifies
\* no forecast row: the forecasts table at the end of the run holds the rows
\* from before the run that are at most 14 days old, the older ones having
\* been removed by the cleanup that ends the run.
C4_Isolation ==
    /\ IsolatedRunDone =>
          /\ ObservationsStored
          /\ forecasts = YoungerThan(run.pre, RETENTION_DAYS)
    /\ (run.bulletin = "failed" /\ pc \notin {"crashed", "aborted"}) =>
          forecasts = run.pre \/ pc = "done"
    /\ (run.bulletin = "failed" /\ pc = "aborted") =>
          LastStep = "fault" \/ run.feed \in {"KeyError", "ValueError"}

\* such a run over forecast rows that are still within retention
C4_Witness ==
    /\ IsolatedRunDone
    /\ Len(run.pre) > 0
    /\ forecasts = run.pre

\* such a run over forecast rows 15 days old, which its cleanup removed
C4_WitnessPurged ==
    /\ IsolatedRunDone
    /\ Len(run.pre) > 0
    /\ forecasts = << >>

\* the stage of the script a step belongs to
StageOf(step) ==
    IF step = "init_db" THEN 1
    ELSE IF step \in {"fetch_forecasts", "upsert_exec", "upsert_commit"} THEN 2
    ELSE IF step \in {"fetch_observations", "insert_exec", "insert_commit"} THEN 3
    ELSE IF step \in {"cleanup", "cleanup_observations", "cleanup_commit"} THEN 4
    ELSE 5

\* the steps of a run follow the order schema, forecasts, observations,
\* cleanup, and a run that has ended normally has gone through all four, with
\* one cleanup, committed last
OrderAndCleanup ==
    /\ \A j, k \in 1..Len(run.steps) : j < k => StageOf(run.steps[j]) <= StageOf(run.steps[k])
    /\ pc = "done" =>
          /\ run.steps[1] = "init_db"
          /\ \E k \in 1..Len(run.steps) : run.steps[k] = "fetch_forecasts"
          /\ \E k \in 1..Len(run.steps) : run.steps[k] = "fetch_observations"
          /\ Cardinality({k \in 1..Len(run.steps) : run.steps[k] = "cleanup"}) = 1
          /\ LastStep = "cleanup_commit"

\* C17: a run in which no storage operation faults ends normally whatever the
\* two fetches give: only a storage fault aborts a run; the steps are taken in
\* the order schema, forecast stage, observation stage, cleanup, and
\* cleanup_old_data runs once, as the last operation on the store.
C17_RunsToCompletion ==
    /\ pc = "aborted" => LastStep = "fault"
    /\ OrderAndCleanup

\* both fetches failed and the run ended normally, having cleaned up
C17_DegradedRunDone ==
    /\ pc = "done"
    /\ run.bulletin = "failed"
    /\ run.feed = "failed"
    /\ run.steps = <<"init_db", "fetch_forecasts", "fetch_observations", "cleanup",
                     "cleanup_observations", "cleanup_commit">>


-----------------------------------------------------------------------------
(* Claims about the parser                                                 *)

\* C11: the bulletin with the anchor "Issued at 5:00 pm on Friday 1 January
\* 2021" and the section "Forecast for Hobart. ... Maximum 28." parses to the
\* record (Hobart, 2021-01-01, 28).
C11_EndToEnd ==
    (last.op = "parse_forecasts" /\ last.arg.form = "location") =>
        last.ret = <<[location |-> "Hobart", forecast_date |-> "2021-01-01", max_temp |-> 28]>>

\* the same anchor over a day section with the line "Hobart   Sunny. Maximum
\* 28." does parse to that record
C11_DailyLayout ==
    /\ last.op = "parse_forecasts"
    /\ last.arg = Bulletin(JanuaryAnchor, <<"max">>)
    /\ last.ret = <<[location |-> "Hobart", forecast_date |-> "2021-01-01", max_temp |-> 28]>>

-----------------------------------------------------------------------------
(* Claims about the comparison query                                       *)

\* the rows of the forecasts table under the key of the last query
QueriedRows ==
    {i \in 1..Len(forecasts) :
        /\ forecasts[i].location = last.arg[1]
        /\ forecasts[i].forecast_date = last.arg[2]}

C12_WitnessFound ==
    /\ last.op = "get_comparison_data"
    /\ last.ret.forecast = [max_temp |-> 25]
    /\ last.arg = <<OBSERVATION_LOCATION, "2021-01-01">>

\* days before each month of a year that is no leap year
DaysBefore == <<0, 31, 59, 90, 120, 151, 181, 212, 243, 273, 304, 334>>

\* the days from 1 January 2021 to a date of 2021 or 2022
Ordinal(date) == (date.y - 2021) * 365 + DaysBefore[date.m] + date.d - 1

\* the calendar date n days after a date, as yyyy-mm-dd
DatePlus(date, n) ==
    LET later == CHOOSE x \in [y : 2021..2022, m : 1..12, d : 1..31] :
                    /\ Ordinal(x) = Ordinal(date) + n
                    /\ x.m = 12 \/ Ordinal(x) < Ordinal([x EXCEPT !.m = x.m + 1, !.d = 1])
    IN  IntStr(later.y) \o "-" \o (IF later.m < 10 THEN "0" ELSE "") \o IntStr(later.m)
        \o "-" \o (IF later.d < 10 THEN "0" ELSE "") \o IntStr(later.d)

RECURSIVE Dated(_, _)
Dated(lines, date_str) ==
    IF Len(lines) = 0 THEN << >>
    ELSE <<[location |-> Head(lines).location, forecast_date |-> date_str,
            max_temp |-> Head(lines).max_temp]>> \o Dated(Tail(lines), date_str)

RECURSIVE ExpectedRecords(_, _, _)
\* the lines of the sections from the i-th on, those of section k dated k - 1
\* days after the issue date
ExpectedRecords(kinds, i, date) ==
    IF i > Len(kinds) THEN << >>
    ELSE Dated(SectionKinds[kinds[i]].lines, DatePlus(date, i - 1))
         \o ExpectedRecords(kinds, i + 1, date)

\* the bulletin has day sections under an issue line whose date the parser
\* reads
DatedBulletin(b) ==
    b.form = "daily" /\ b.anchor.date # None /\ b.anchor.month # "September"

\* C14: the records of a bulletin are those of its day sections in order of
\* appearance, the ones of the section with 0-based index i dated D0 + i days
\* with D0 the issue date; the preamble and a section without a match give
\* no record, the latter still taking its index; no section, no record.
C14_OrdinalDates ==
    (last.op = "parse_forecasts" /\ DatedBulletin(last.arg)) =>
        last.ret = ExpectedRecords(last.arg.sections, 1, last.arg.anchor.date)

\* a bulletin issued on 31 December whose first section has no match and whose
\* second has two: both records are dated 1 January of the next year
C14_Witness ==
    /\ last.op = "parse_forecasts"
    /\ last.arg = Bulletin(YearEndAnchor, <<"none", "dup">>)
    /\ Len(last.ret) = 2
    /\ \A k \in 1..2 : last.ret[k].forecast_date = "2022-01-01"

\* a bulletin without a day section gives no record
C14_WitnessNoSection ==
    /\ last.op = "parse_forecasts"
    /\ last.arg = Bulletin(YearEndAnchor, << >>)
    /\ last.ret = << >>

\* "Maximum", one space, digits and a full stop stand at p
IsMaximumNumber(t, p) ==
    /\ StartsWith(t, p, "Maximum ")
    /\ DigitEnd(t, p + 8) > p + 8
    /\ StartsWith(t, DigitEnd(t, p + 8), ".")

RECURSIVE MaximumNumbers(_, _)
\* the integers that follow the word Maximum in the text from a position on
MaximumNumbers(t, from) ==
    LET P == {p \in from..Len(t) : IsMaximumNumber(t, p)}
    IN  IF P = {} THEN << >>
        ELSE <<IntOf(SubSeq(t, Min(P) + 8, DigitEnd(t, Min(P) + 8) - 1))>>
             \o MaximumNumbers(t, Min(P) + 1)

\* where the day sections of a text begin
SectionsStart(t) ==
    LET H == {p \in 1..Len(t) : StartsWith(t, p, "Forecast for")}
    IN  IF H = {} THEN Len(t) + 1 ELSE Min(H)

\* C16: the max_temp values of the records are, in order, the integers that
\* directly follow the word Maximum on the lines of the day sections: a line
\* with "Maximum 23." gives max_temp 23, a line that has only "Minimum 5."
\* gives no record, and no record carries the number that follows Minimum.
C16_MaximumOnly ==
    last.op = "parse_forecasts" =>
        /\ DatedBulletin(last.arg) =>
              [k \in 1..Len(last.ret) |-> last.ret[k].max_temp]
                 = MaximumNumbers(last.arg.text, SectionsStart(last.arg.text))
        /\ \A k \in 1..Len(last.ret) :
              /\ \E p \in 1..Len(last.arg.text) :
                    StartsWith(last.arg.text, p,
                               "Maximum " \o IntStr(last.ret[k].max_temp) \o ".")
              /\ last.ret[k].max_temp # 5

\* a section with the line "Hobart   Cloudy. Minimum 5." and one with the
\* line "Hobart   Showers. Minimum 5. Maximum 23." gave the one record of 23
C16_Witness ==
    /\ last.op = "parse_forecasts"
    /\ last.arg = Bulletin(YearEndAnchor, <<"min", "minmax">>)
    /\ Len(last.ret) = 1
    /\ last.ret[1].max_temp = 23
    /\ last.ret[1].location = "Hobart"

\* C19: an issue line with the month written "Sept" and one with it written
\* "September" give the same base date, and an issue line with any full
\* English month name gives that calendar date: the one record of the
\* bulletin is dated by it, the result is not empty.
C19_MonthNames ==
    (/\ last.op = "parse_forecasts"
     /\ last.arg.form = "daily"
     /\ last.arg.anchor.date # None
     /\ last.arg.sections = <<"max">>)
    => last.ret = <<[location |-> "Hobart",
                     forecast_date |-> DatePlus(last.arg.anchor.date, 0),
                     max_temp |-> 28]>>

\* the issue line "Wednesday 1 Sept 2021" gives 1 September 2021
C19_SeptAbbreviation ==
    /\ last.op = "parse_forecasts"
    /\ last.arg = Bulletin(SeptAnchor, <<"max">>)
    /\ last.ret = <<[location |-> "Hobart", forecast_date |-> "2021-09-01", max_temp |-> 28]>>

-----------------------------------------------------------------------------
(* Claims about the normaliser                                             *)

\* the record the entry is to give: the configured location, the two time
\* values joined, the temperature in tenths of a degree
ExpectedObservation(obs) ==
    [location |-> "Dunalley (Henry anson)",
     observation_datetime |-> obs.local_date_time_full.s \o obs.aifstime_utc.s,
     air_temp |-> IF obs.air_temp.t = "num" THEN obs.air_temp.v
                  ELSE IF obs.air_temp.s = "20.5" THEN 205 ELSE -1]

\* the entry has a temperature and lacks a time value, or its temperature
\* is no number
MalformedEntry(obs) ==
    /\ "air_temp" \in DOMAIN obs /\ obs.air_temp.t # "null"
    /\ \/ "local_date_time_full" \notin DOMAIN obs
       \/ "aifstime_utc" \notin DOMAIN obs
       \/ obs.air_temp.t = "str" /\ obs.air_temp.s # "20.5"

RECURSIVE ExpectedObservations(_)
ExpectedObservations(feed) ==
    IF Len(feed) = 0 THEN << >>
    ELSE IF "air_temp" \in DOMAIN Head(feed) /\ Head(feed).air_temp.t # "null"
    THEN <<ExpectedObservation(Head(feed))>> \o ExpectedObservations(Tail(feed))
    ELSE ExpectedObservations(Tail(feed))

\* C15: of a feed whose entries with a temperature have both time values and
\* a numeric temperature, the normaliser emits in feed order one record for
\* each entry whose air_temp is present and not null and none for the others;
\* a record has the configured location, the temperature as a number and the
\* entry's local date-time followed by its UTC value as observation_datetime.
C15_OnePerTemperature ==
    (/\ last.op = "fetch_observations"
     /\ \A i \in 1..Len(last.arg) : ~ MalformedEntry(last.arg[i]))
    => /\ last.ret.raised = "none"
       /\ last.ret.value = ExpectedObservations(last.arg)

\* a feed of an entry without air_temp, a valid one and one with a null
\* air_temp gave the one record of the valid entry
C15_Witness ==
    /\ last.op = "fetch_observations"
    /\ last.arg = <<NoTempEntry, BomEntry, NullTempEntry>>
    /\ last.ret.value =
          <<[location |-> "Dunalley (Henry anson)",
             observation_datetime |-> "2021010117300020210101063000",
             air_temp |-> 215]>>

-----------------------------------------------------------------------------
(* Claims about the start of the app                                       *)

\* C18: an app start over a forecasts table without rows, fresh or emptied,
\* finds the database empty and invokes perform_first_time_setup.
C18_SetupOnEmptyStore ==
    (last.op = "app_start" /\ last.ret.empty) => last.ret.setup

\* the app started over a forecasts table that cleanup_old_data had emptied,
\* and the table is still empty when the page is drawn
C18_StartOnEmptiedStore ==
    /\ last.op = "app_start"
    /\ last.ret.empty
    /\ \E k \in ForecastKeys : lastVal[k] # << >>
    /\ forecasts = << >>

-----------------------------------------------------------------------------
(* Claims about a batch with a repeated key                                *)

\* the rows of the forecasts table under the key of the i-th record of the
\* last batch
RowsOfRecord(i) ==
    {k \in 1..Len(forecasts) : ForecastKey(forecasts[k]) = ForecastKey(last.arg[i])}

\* C20: after upsert_forecasts of a batch, also one with several records of
\* one (location, forecast_date), each key of the batch has a single row,
\* whose max_temp is that of the last record of the key in batch order, and
\* the rows of all keys of the batch carry one and the same last_updated_at.
C20_LastRecordWins ==
    last.op = "upsert_forecasts" =>
        /\ \A i \in 1..Len(last.arg) :
              /\ Cardinality(RowsOfRecord(i)) = 1
              /\ \A k \in RowsOfRecord(i) :
                    \E j \in i..Len(last.arg) :
                        /\ ForecastKey(last.arg[j]) = ForecastKey(last.arg[i])
                        /\ \A m \in (j + 1)..Len(last.arg) :
                              ForecastKey(last.arg[m]) # ForecastKey(last.arg[i])
                        /\ forecasts[k].max_temp = last.arg[j].max_temp
        /\ \A i, j \in 1..Len(last.arg) :
              \A k \in RowsOfRecord(i), m \in RowsOfRecord(j) :
                  forecasts[k].last_updated_at = forecasts[m].last_updated_at

\* a batch with 18 and then 25 for one key left the one row of that key, at 25
C20_Witness ==
    /\ last.op = "upsert_forecasts"
    /\ last.arg = <<Forecast("Hobart", "2021-01-01", 18), Forecast("Hobart", "2021-01-01", 25)>>
    /\ Len(forecasts) = 1
    /\ forecasts[1].max_temp = 25

====
